---- MODULE Spec2Model ----
(***************************************************************************)
(* A model of the TaggedText component (src/src/TaggedText.ts): the text,  *)
(* the style table, the dirty flags, the token tree and the display lists, *)
(* with one action per public operation.  The parser, the style resolver   *)
(* and the layout engine are imported by TaggedText.ts from modules that   *)
(* are not part of the source at hand; they are modelled from the          *)
(* specification (sections 4.1 to 4.4) and kept small.                     *)
(***************************************************************************)
EXTENDS Integers, Sequences, FiniteSets, TLC

VARIABLES
  text,            \* _text
  needsUpdate,     \* _needsUpdate
  needsDraw,       \* _needsDraw
  tokens,          \* _tokens, a ParagraphToken: lines of words of segments
  tagStyles,       \* _tagStyles, a function from tag names to styles
  options,         \* _options
  textFields,      \* _textFields
  sprites,         \* _sprites
  decorations,     \* _decorations
  spriteTemplates, \* _spriteTemplates, the set of registered keys
  listeners,       \* keys whose texture still has the 'update' listener
  destroyed,       \* the destroyed flag of the PIXI object
  spriteContainer, \* _spriteContainer
  passed,          \* the options and the style table the caller passed, and the shared default style
  call,            \* what the last operation was and what it was seen to do
  ops,             \* the number of operations since construction
  scale            \* the scale normalisation of one text field (SpecScale)

vars == <<text, needsUpdate, needsDraw, tokens, tagStyles, options, textFields,
          sprites, decorations, spriteTemplates, listeners, destroyed,
          spriteContainer, passed, call, ops, scale>>

(***************************************************************************)
(* Values.                                                                 *)
(***************************************************************************)

\* A JavaScript boolean | undefined, as the optional arguments and options are.
TRI == {"true", "false", "undefined"}

DEFAULT_KEY == "default"

IMG_REFERENCE_PROPERTY == "imgSrc"

\* A style key that the object does not have (as opposed to one it has with
\* the value undefined, which a spread copies and which overrides).
ABSENT == "<absent>"

UNDEFINED == "<undefined>"

\* JavaScript truthiness of a style value.
Truthy(v) == v \notin {ABSENT, UNDEFINED, ""}

\* The styles the model's callers pass: a plain one, an underlined one, and
\* one that carries an image reference.
PlainStyle == [imgSrc |-> ABSENT, underline |-> ABSENT]

UnderStyle == [imgSrc |-> ABSENT, underline |-> "#ff0000"]

IconStyle == [imgSrc |-> "icon", underline |-> ABSENT]

StyleInputs == {PlainStyle, UnderStyle, IconStyle}

\* The library's default style carries no image reference and no decoration.
DEFAULT_STYLE == [imgSrc |-> ABSENT, underline |-> ABSENT]

\* { ...a, ...b }: the keys b has replace those of a.
Spread(a, b) ==
  [k \in DOMAIN a |-> IF b[k] = ABSENT THEN a[k] ELSE b[k]]

(***************************************************************************)
(* Texts.  A text is known by its markup; Chunks gives its structure: the  *)
(* runs of literal text, each under at most one tag.                       *)
(***************************************************************************)
HandlerText == "h"

FatalText == "<fatal>"

Texts == {"", "a <b>x</b>", HandlerText, FatalText}

Chunks(t) ==
  CASE t = "" -> <<>>
    [] t = "a <b>x</b>" -> << [tag |-> "", body |-> "a", ws |-> FALSE],
                              [tag |-> "", body |-> " ", ws |-> TRUE],
                              [tag |-> "b", body |-> "x", ws |-> FALSE] >>
    [] t = HandlerText -> << [tag |-> "", body |-> "h", ws |-> FALSE] >>
    [] OTHER -> <<>>

\* The pipeline errors fatally on this text (specification, section 7).
Fatal(t) == t = FatalText

(***************************************************************************)
(* The operations are functions of the component s, a record of its fields *)
(* and of a trace s.tr of what the operation has done so far.  Each is     *)
(* written as the composition of its statements, in the order of the code. *)
(*                                                                         *)
(* The pass: parse, resolve styles, lay out.  These three functions are    *)
(* imported by TaggedText.ts; they are modelled from the specification.    *)
(***************************************************************************)
Max(a, b) == IF a >= b THEN a ELSE b

RECURSIVE update(_, _)
RECURSIVE draw(_)
RECURSIVE logWarning(_, _)
RECURSIVE setText(_, _, _)
RECURSIVE updateIfShould(_, _)
RECURSIVE drawIfShould(_, _)
RECURSIVE parseChunks(_, _, _, _, _)
RECURSIVE drawTokens(_, _, _, _, _)
RECURSIVE drawDecorations(_, _, _)

\* The handler a caller may pass as options.errorHandler.  It is handed the
\* component (target) and is called synchronously by logWarning; this one
\* replaces the text by a fallback text, unless that is the text already.
errorHandler(s) ==
  IF s.text = HandlerText
  THEN s
  ELSE [setText([s EXCEPT !.tr.hdepth = @ + 1], HandlerText, "undefined")
          EXCEPT !.tr.hdepth = @ - 1]

Warned(s, code) == [s EXCEPT !.tr.warnings = Append(@, code)]

logWarning(s, code) ==
  IF s.options.errorHandler = "none"
  THEN Warned(s, code)
  ELSE errorHandler(Warned(s, code))

\* parse(raw, knownTags, wrapEmoji, onWarning): a run under a known tag
\* carries the tag; an unknown tag is reported through onWarning and its
\* markup is kept as literal text.
UnknownTag(c, known) == c.tag # "" /\ c.tag \notin known

PrimitiveToken(c, known) ==
  [content |-> IF UnknownTag(c, known) THEN "<?>" \o c.body ELSE c.body,
   ws |-> c.ws,
   tags |-> IF c.tag = "" \/ UnknownTag(c, known) THEN <<>> ELSE <<c.tag>>]

parseChunks(s, chunks, known, i, acc) ==
  IF i > Len(chunks)
  THEN [s |-> s, toks |-> acc]
  ELSE parseChunks(IF UnknownTag(chunks[i], known)
                   THEN logWarning(s, "unknown-tag") ELSE s,
                   chunks, known, i + 1,
                   Append(acc, PrimitiveToken(chunks[i], known)))

parseTagsNew(s, t, known) == parseChunks(s, Chunks(t), known, 1, <<>>)

\* The cascade: default, then each active tag, the later one winning per key.
RECURSIVE combineAllStyles(_, _, _)
combineAllStyles(acc, tags, styles) ==
  IF tags = <<>>
  THEN acc
  ELSE combineAllStyles(
         IF Head(tags) \in DOMAIN styles
         THEN Spread(acc, styles[Head(tags)]) ELSE acc,
         Tail(tags), styles)

ResolvedStyle(tok, styles) ==
  combineAllStyles(IF DEFAULT_KEY \in DOMAIN styles
                   THEN styles[DEFAULT_KEY] ELSE PlainStyle,
                   tok.tags, styles)

\* A segment whose resolved style carries an image reference becomes a sprite
\* segment of the named template; a missing template gives an empty sprite.
StyledToken(tok, style, templates) ==
  [kind |-> IF Truthy(style.imgSrc) THEN "sprite" ELSE "text",
   content |-> IF ~Truthy(style.imgSrc) THEN tok.content
               ELSE IF style.imgSrc \in templates
                    THEN "sprite:" \o style.imgSrc ELSE "sprite:",
   ws |-> tok.ws /\ ~Truthy(style.imgSrc),
   tags |-> tok.tags,
   style |-> style]

mapTagsToStyles(toks, styles, templates) ==
  [i \in 1..Len(toks) |->
     StyledToken(toks[i], ResolvedStyle(toks[i], styles), templates)]

\* The colour a decoration gets from the style's underline value: a string
\* ('#ff0000', 'red', '#') or, for the value written here as '255', a number.
StringColour(str) == [type |-> "string", s |-> str, n |-> 0]

NumberColour(n) == [type |-> "number", s |-> "", n |-> n]


DecorationColour(underline) ==
  IF underline = "255" THEN NumberColour(255) ELSE StringColour(underline)

\* Layout: one line, every segment of these texts a word of its own, each
\* measured w units wide and one high, with one decoration rectangle per
\* underlined text segment.
SegmentBounds(i, w) == [x |-> (i - 1) * w, y |-> 0, width |-> w, height |-> 1]

SegmentToken(st, b) ==
  [kind |-> st.kind, content |-> st.content, ws |-> st.ws, tags |-> st.tags,
   style |-> st.style, bounds |-> b,
   textDecorations |->
     IF st.kind = "text" /\ Truthy(st.style.underline)
     THEN << [color |-> DecorationColour(st.style.underline), bounds |-> b] >>
     ELSE <<>>]

calculateTokensMeasured(styled, w) ==
  IF styled = <<>>
  THEN <<>>
  ELSE << [i \in 1..Len(styled) |-> << SegmentToken(styled[i], SegmentBounds(i, w)) >>] >>

calculateTokens(styled) == calculateTokensMeasured(styled, 1)

\* The tree the pipeline gives for a text, a style table and the templates,
\* with segments measured w wide.
PassMeasured(t, styles, templates, w) ==
  calculateTokensMeasured(
    mapTagsToStyles([i \in 1..Len(Chunks(t)) |->
                       PrimitiveToken(Chunks(t)[i], DOMAIN styles)],
                    styles, templates),
    w)

Pass(t, styles, templates) == PassMeasured(t, styles, templates, 1)

RECURSIVE Flatten(_)
Flatten(ss) == IF ss = <<>> THEN <<>> ELSE Head(ss) \o Flatten(Tail(ss))

tokensFlat(toks) == Flatten(Flatten(toks))

isTextToken(t) == t.kind = "text"

isSpriteToken(t) == t.kind = "sprite"

isNotWhitespaceToken(t) == ~t.ws

(***************************************************************************)
(* draw() and what it calls.                                               *)
(***************************************************************************)
\* resetChildren as it would be if it kept the lists.
\* new PIXI.Container(): not destroyed, no texture of a child destroyed.
NewContainer == [destroyed |-> FALSE, texturesDestroyed |-> {}]

resetChildrenKeeping(s) == s

resetChildren(s) ==
  [s EXCEPT !.spriteContainer = NewContainer,
            !.textFields = <<>>, !.sprites = <<>>, !.decorations = <<>>]

(***************************************************************************)
(* JavaScript numbers, as far as the scale factors need them: NaN, the two *)
(* infinities and the rationals n/d in lowest terms with d > 0; undefined  *)
(* stands for a style key that is not set.                                 *)
(***************************************************************************)
RECURSIVE GCD(_, _)
GCD(a, b) == IF b = 0 THEN a ELSE GCD(b, a % b)

Abs(n) == IF n < 0 THEN -n ELSE n

Sign(n) == IF n < 0 THEN -1 ELSE IF n > 0 THEN 1 ELSE 0

Fin(n, d) ==
  [kind |-> "fin", n |-> n \div GCD(Abs(n), d), d |-> d \div GCD(Abs(n), d)]

NaN == [kind |-> "nan", n |-> 0, d |-> 1]

Inf(sign) == [kind |-> "inf", n |-> sign, d |-> 1]

Undef == [kind |-> "undefined", n |-> 0, d |-> 1]

Zero == Fin(0, 1)

One == Fin(1, 1)

IsNaN(a) == a.kind = "nan"

\* a < b
Lt(a, b) ==
  /\ ~IsNaN(a)
  /\ ~IsNaN(b)
  /\ CASE a.kind = "fin" /\ b.kind = "fin" -> a.n * b.d < b.n * a.d
       [] a.kind = "inf" /\ b.kind = "inf" -> a.n < b.n
       [] a.kind = "inf" -> a.n < 0
       [] OTHER -> b.n > 0

\* a === b
StrictEq(a, b) == ~IsNaN(a) /\ ~IsNaN(b) /\ a = b

MathMax(a, b) ==
  IF IsNaN(a) \/ IsNaN(b) THEN NaN ELSE IF Lt(a, b) THEN b ELSE a

\* a / b (the sign of a zero divisor is taken as positive)
Div(a, b) ==
  CASE IsNaN(a) \/ IsNaN(b) -> NaN
    [] a.kind = "inf" /\ b.kind = "inf" -> NaN
    [] a.kind = "inf" -> Inf(IF b.n < 0 THEN -a.n ELSE a.n)
    [] b.kind = "inf" -> Zero
    [] b.n = 0 -> IF a.n = 0 THEN NaN ELSE Inf(Sign(a.n))
    [] OTHER -> Fin(Sign(b.n) * a.n * b.d, a.d * Abs(b.n))

\* a * b
Mul(a, b) ==
  CASE IsNaN(a) \/ IsNaN(b) -> NaN
    [] a.kind = "inf" \/ b.kind = "inf" ->
         IF a.n = 0 \/ b.n = 0 THEN NaN ELSE Inf(Sign(a.n) * Sign(b.n))
    [] OTHER -> Fin(a.n * b.n, a.d * b.d)

\* a + b and -a, for operands that are finite
Add(a, b) ==
  IF a.kind = "fin" /\ b.kind = "fin"
  THEN Fin(a.n * b.d + b.n * a.d, a.d * b.d)
  ELSE NaN

Neg(a) == [a EXCEPT !.n = -a.n]

MathMin(a, b) ==
  IF IsNaN(a) \/ IsNaN(b) THEN NaN ELSE IF Lt(b, a) THEN b ELSE a

(***************************************************************************)
(* createDrawingForTextDecoration.                                         *)
(***************************************************************************)
\* The characters of the colour strings of the model.
Chars(str) ==
  CASE str = "#ff0000" -> <<"#", "f", "f", "0", "0", "0", "0">>
    [] str = "red" -> <<"r", "e", "d">>
    [] str = "#" -> <<"#">>
    [] OTHER -> <<>>

HexDigits ==
  <<"0", "1", "2", "3", "4", "5", "6", "7", "8", "9", "a", "b", "c", "d", "e", "f">>

DigitValue(c) == (CHOOSE i \in DOMAIN HexDigits : HexDigits[i] = c) - 1

\* Number.parseInt('0x' + digits, 16): the digits up to the first character
\* that is none, NaN if there is no digit.
RECURSIVE parseInt16(_, _, _)
parseInt16(chars, i, acc) ==
  IF i <= Len(chars) /\ (\E k \in DOMAIN HexDigits : HexDigits[k] = chars[i])
  THEN parseInt16(chars, i + 1, acc * 16 + DigitValue(chars[i]))
  ELSE IF i = 1 THEN [type |-> "nan", s |-> "", n |-> 0] ELSE NumberColour(acc)

\* color.indexOf('#') === 0
StartsWithHash(str) == Chars(str) # <<>> /\ Head(Chars(str)) = "#"

InvalidColour(color) == color.type = "string" /\ ~StartsWithHash(color.s)

\* The colour the rectangle is filled with.
FillColour(color) ==
  IF color.type = "string" /\ StartsWithHash(color.s)
  THEN parseInt16(Tail(Chars(color.s)), 1, 0)
  ELSE color

\* const { overdrawDecorations: overdraw = 0 } = this.options
Overdraw(opts) ==
  IF "overdrawDecorations" \in DOMAIN opts /\ opts.overdrawDecorations.kind # "undefined"
  THEN opts.overdrawDecorations
  ELSE Zero

\* The rectangle as it would be without the Math.min.
DecorationRectWithoutMin(bounds, overdraw) ==
  [x |-> Add(Fin(bounds.x, 1), Neg(overdraw)),
   y |-> bounds.y,
   width |-> MathMax(Add(Fin(bounds.width, 1), Mul(overdraw, Fin(2, 1))), Zero),
   height |-> bounds.height]

\* The rectangle as it would be without the Math.max.
DecorationRectUnclamped(bounds, overdraw) ==
  [x |-> MathMin(Add(Fin(bounds.x, 1), Neg(overdraw)),
                 Add(Fin(bounds.x, 1), Div(Fin(bounds.width, 1), Fin(2, 1)))),
   y |-> bounds.y,
   width |-> Add(Fin(bounds.width, 1), Mul(overdraw, Fin(2, 1))),
   height |-> bounds.height]

\* x = Math.min(bounds.x - overdraw, midpoint),
\* width = Math.max(bounds.width + overdraw * 2, 0)
DecorationRect(bounds, overdraw) ==
  [x |-> MathMin(Add(Fin(bounds.x, 1), Neg(overdraw)),
                 Add(Fin(bounds.x, 1), Div(Fin(bounds.width, 1), Fin(2, 1)))),
   y |-> bounds.y,
   width |-> MathMax(Add(Fin(bounds.width, 1), Mul(overdraw, Fin(2, 1))), Zero),
   height |-> bounds.height]

\* The drawing of one decoration; a string colour that is no '#' colour is
\* reported and used as it is.
createDrawingForTextDecoration(s, d) ==
  [s |-> IF InvalidColour(d.color) THEN logWarning(s, "invalid-color") ELSE s,
   drawing |-> [color |-> FillColour(d.color),
                rect |-> DecorationRect(d.bounds, Overdraw(s.options))]]

PushDrawing(r) == [r.s EXCEPT !.decorations = Append(@, r.drawing)]

drawDecorations(s, ds, i) ==
  IF i > Len(ds)
  THEN s
  ELSE drawDecorations(PushDrawing(createDrawingForTextDecoration(s, ds[i])),
                       ds, i + 1)

\* A font size: a number, a string such as '12px', or not set.
NoSize == [type |-> "undefined", s |-> "", v |-> Zero]

NumberSize(v) == [type |-> "number", s |-> "", v |-> v]

StringSize(str) == [type |-> "string", s |-> str, v |-> Zero]

fontSizeStringToNumber(str) ==
  CASE str = "12px" -> Fin(12, 1)
    [] OTHER -> NaN

StyleValue(style, key, missing) ==
  IF key \in DOMAIN style THEN style[key] ELSE missing

\* new PIXI.Text({ text, style })
createTextField(content, style) ==
  [text |-> content,
   fontSize |-> StyleValue(style, "fontSize", NoSize),
   scale |-> [x |-> One, y |-> One]]

\* const { fontScaleWidth = 1.0 } = token.style, then
\* Number.isNaN(fontScaleWidth) || fontScaleWidth < 0 ? 0 : fontScaleWidth
FontScale(style, key) ==
  LET given == StyleValue(style, key, Undef)
      v == IF given.kind = "undefined" THEN One ELSE given
  IN IF IsNaN(v) \/ Lt(v, Zero) THEN Zero ELSE v

\* (fs ?? 0), a string converted, times largerScale
\* The font size as it would be if the larger scale did not drive it.
ScaledFontSizeUnscaled(fs, largerScale) ==
  NumberSize(CASE fs.type = "undefined" -> Zero
               [] fs.type = "string" -> fontSizeStringToNumber(fs.s)
               [] OTHER -> fs.v)

ScaledFontSize(fs, largerScale) ==
  NumberSize(Mul(CASE fs.type = "undefined" -> Zero
                   [] fs.type = "string" -> fontSizeStringToNumber(fs.s)
                   [] OTHER -> fs.v,
                 largerScale))

\* The branch with the axes exchanged.
ScaleTextFieldExchanged(textField, w, h, largerScale) ==
  IF Lt(One, largerScale)
  THEN [textField EXCEPT
          !.fontSize = ScaledFontSize(@, largerScale),
          !.scale = IF StrictEq(largerScale, h)
                    THEN [x |-> One, y |-> Div(h, largerScale)]
                    ELSE [x |-> Div(w, largerScale), y |-> One]]
  ELSE [textField EXCEPT !.scale = [x |-> w, y |-> h]]

ScaleTextField(textField, w, h, largerScale) ==
  IF Lt(One, largerScale)
  THEN [textField EXCEPT
          !.fontSize = ScaledFontSize(@, largerScale),
          !.scale = IF StrictEq(largerScale, h)
                    THEN [x |-> Div(w, largerScale), y |-> One]
                    ELSE [x |-> One, y |-> Div(h, largerScale)]]
  ELSE [textField EXCEPT !.scale = [x |-> w, y |-> h]]

\* textTransform and align are left at their defaults.
createTextFieldForToken(t) ==
  ScaleTextField(createTextField(t.content, t.style),
                 FontScale(t.style, "fontScaleWidth"),
                 FontScale(t.style, "fontScaleHeight"),
                 MathMax(FontScale(t.style, "fontScaleWidth"),
                         FontScale(t.style, "fontScaleHeight")))

\* The tree with segment t replaced by u.
Replaced(toks, t, u) ==
  [l \in DOMAIN toks |->
     [w \in DOMAIN toks[l] |->
        [k \in DOMAIN toks[l][w] |->
           IF toks[l][w][k] = t THEN u ELSE toks[l][w][k]]]]

\* The push as it would be if the field were given the token's own style
\* object and wrote to it.
PushTextFieldSharingStyle(s, t) ==
  [s EXCEPT !.textFields =
              Append(@, [text |-> createTextFieldForToken(t).text, x |-> 0, y |-> 0]),
            !.tokens = Replaced(@, t, [t EXCEPT !.style.underline = "written"])]

\* this.createTextFieldForToken(t), textContainer.addChild, textFields.push:
\* a new field sits at the origin.
PushTextField(s, t) ==
  [s EXCEPT !.textFields =
     Append(@, [text |-> createTextFieldForToken(t).text, x |-> 0, y |-> 0])]

\* displayObject = t.content, sprites.push, spriteContainer.addChild
PushSprite(s, t) ==
  [s EXCEPT !.sprites = Append(@, [sprite |-> t.content, x |-> 0, y |-> 0])]

\* The two tests of the loop body, one after the other.
DrawToken(s, t) ==
  IF isTextToken(t)
  THEN drawDecorations(PushTextField(s, t), t.textDecorations, 1)
  ELSE IF isSpriteToken(t) THEN PushSprite(s, t) ELSE s

\* displayObject is declared outside the loop: after a token that is neither
\* a text nor a sprite it is still the object of the token before.
DisplayObject(t, displayObject) ==
  IF isSpriteToken(t) THEN "sprite"
  ELSE IF isTextToken(t) THEN "text" ELSE displayObject

\* The positioning as it would be if nothing were positioned.
PositionNowhere(s, displayObject, bounds) == s

\* displayObject.x = bounds.x; displayObject.y = bounds.y
Position(s, displayObject, bounds) ==
  CASE displayObject = "text" ->
         [s EXCEPT !.textFields =
            [@ EXCEPT ![Len(@)].x = bounds.x, ![Len(@)].y = bounds.y]]
    [] displayObject = "sprite" ->
         [s EXCEPT !.sprites =
            [@ EXCEPT ![Len(@)].x = bounds.x, ![Len(@)].y = bounds.y]]
    [] OTHER -> [s EXCEPT !.tr.threw = TRUE]

drawTokens(s, toks, i, drew, displayObject) ==
  IF i > Len(toks)
  THEN [s |-> s, drew |-> drew]
  ELSE drawTokens(Position(DrawToken(s, toks[i]),
                           DisplayObject(toks[i], displayObject),
                           toks[i].bounds),
                  toks, i + 1,
                  drew \/ (isTextToken(toks[i]) /\ Len(toks[i].textDecorations) > 0),
                  DisplayObject(toks[i], displayObject))

TokensToDraw(s) ==
  IF s.options.drawWhitespace = "true"
  THEN tokensFlat(s.tokens)
  ELSE SelectSeq(tokensFlat(s.tokens), isNotWhitespaceToken)

DrawEnd(r, drawWhitespace) ==
  [(IF drawWhitespace = "false" /\ r.drew
    THEN logWarning(r.s, "text-decoration-and-whitespace")
    ELSE r.s) EXCEPT !.needsDraw = FALSE]

DrawBegin(s) ==
  resetChildren([s EXCEPT !.tr.draws = IF s.tr.hdepth = 0 THEN @ + 1 ELSE @])

draw(s) ==
  DrawEnd(drawTokens(DrawBegin(s), TokensToDraw(s), 1, FALSE, "undefined"),
          s.options.drawWhitespace)

\* drawIfShould as it would be if only the option decided.
drawIfShouldByOption(s, forcedSkipDraw) ==
  IF s.options.skipDraw = "false" THEN draw(s) ELSE s

drawIfShould(s, forcedSkipDraw) ==
  IF \/ forcedSkipDraw = "false"
     \/ (forcedSkipDraw = "undefined" /\ s.options.skipDraw = "false")
  THEN draw(s)
  ELSE s

(***************************************************************************)
(* update() and the setters.                                               *)
(***************************************************************************)
\* A pass the operation runs itself: not one nested in another pass, and not
\* one run by the handler.
Direct(s) == s.tr.depth = 0 /\ s.tr.hdepth = 0

\* The entry of update(): the trace notes the pass, how deep it nests, and
\* (for a direct pass) the text and the style table it reads.
UpdateBegin(s) ==
  [s EXCEPT !.tr.depth = @ + 1,
            !.tr.maxDepth = Max(@, s.tr.depth + 1),
            !.tr.updates = IF s.tr.hdepth = 0 THEN @ + 1 ELSE @,
            !.tr.passText = IF Direct(s) THEN <<s.text>> ELSE @,
            !.tr.passStyles = IF Direct(s) THEN <<s.tagStyles>> ELSE @]

UpdateThrow(s) == [s EXCEPT !.tr.threw = TRUE, !.tr.depth = @ - 1]

\* this._needsUpdate = false; return newFinalTokens
UpdateEnd(s, newFinalTokens, outer) ==
  [s EXCEPT !.needsUpdate = FALSE,
            !.tr.depth = @ - 1,
            !.tr.ret = IF outer THEN <<newFinalTokens>> ELSE @]

\* this._tokens = newFinalTokens; this._needsDraw = true; this.drawIfShould()
UpdateInstall(s, newFinalTokens, skipDraw, outer) ==
  UpdateEnd(drawIfShould([s EXCEPT !.tokens = newFinalTokens,
                                   !.needsDraw = TRUE,
                                   !.tr.stored = IF outer THEN <<newFinalTokens>> ELSE @],
                         skipDraw),
            newFinalTokens, outer)

UpdateLayout(p, templates, skipDraw, outer) ==
  UpdateInstall(p.s,
                calculateTokens(mapTagsToStyles(p.toks, p.s.tagStyles, templates)),
                skipDraw, outer)

\* update as it would be if it emptied tokens and cleared needsUpdate first.
updateClearingFirst(s, skipDraw) ==
  IF Fatal(s.text)
  THEN UpdateThrow([UpdateBegin(s) EXCEPT !.tokens = <<>>, !.needsUpdate = FALSE])
  ELSE UpdateLayout(parseTagsNew(UpdateBegin(s), s.text, DOMAIN s.tagStyles),
                    IF s.options.imgMap.defined THEN s.spriteTemplates ELSE {},
                    skipDraw, Direct(s))

update(s, skipDraw) ==
  IF Fatal(s.text)
  THEN UpdateThrow(UpdateBegin(s))
  ELSE UpdateLayout(parseTagsNew(UpdateBegin(s), s.text, DOMAIN s.tagStyles),
                    IF s.options.imgMap.defined THEN s.spriteTemplates ELSE {},
                    skipDraw, Direct(s))

\* updateIfShould as it would be if only the option decided.
updateIfShouldByOption(s, forcedSkipUpdate) ==
  IF s.options.skipUpdates = "false" THEN update(s, "undefined") ELSE s

updateIfShould(s, forcedSkipUpdate) ==
  IF \/ forcedSkipUpdate = "false"
     \/ (forcedSkipUpdate = "undefined" /\ s.options.skipUpdates = "false")
  THEN update(s, "undefined")
  ELSE s

\* setText as it would be without the early return.
setTextAlways(s, t, skipUpdate) ==
  updateIfShould([s EXCEPT !.text = t, !.needsUpdate = TRUE], skipUpdate)

\* setText as it would be if it did not store the text.
setTextNotStoring(s, t, skipUpdate) ==
  IF t = s.text /\ s.needsUpdate = FALSE
  THEN s
  ELSE updateIfShould([s EXCEPT !.needsUpdate = TRUE], skipUpdate)

setText(s, t, skipUpdate) ==
  IF t = s.text /\ s.needsUpdate = FALSE
  THEN s
  ELSE updateIfShould([s EXCEPT !.text = t, !.needsUpdate = TRUE], skipUpdate)

\* this.tagStyles[tag] = styles
PutStyle(styles, tag, style) ==
  [k \in DOMAIN styles \cup {tag} |-> IF k = tag THEN style ELSE styles[k]]

\* The clearing as it would be if the reference were kept.
KeepImgOnDefault(s) == s

ClearImgOnDefault(s) ==
  [s EXCEPT !.tagStyles[DEFAULT_KEY].imgSrc = UNDEFINED]

StoreStyle(s, tag, style) ==
  IF tag = DEFAULT_KEY /\ Truthy(style.imgSrc)
  THEN ClearImgOnDefault(
         logWarning([s EXCEPT !.tagStyles = PutStyle(@, tag, style)],
                    "imgSrc-on-default"))
  ELSE [s EXCEPT !.tagStyles = PutStyle(@, tag, style)]

Dirty(s) == [s EXCEPT !.needsUpdate = TRUE]

setStyleForTag(s, tag, style, skipUpdate) ==
  updateIfShould(Dirty(StoreStyle(s, tag, style)), skipUpdate)

RECURSIVE setEachStyle(_, _, _)
setEachStyle(s, styles, tags) ==
  IF tags = <<>>
  THEN s
  ELSE setEachStyle(setStyleForTag(s, Head(tags), styles[Head(tags)], "true"),
                    styles, Tail(tags))

\* Object.entries(styles) lists the keys in insertion order; the tables of
\* the model are built in this order.
TagOrder == <<"default", "b", "icon">>

Tags == {TagOrder[i] : i \in DOMAIN TagOrder}

EntryOrder(styles) == LET in(k) == k \in DOMAIN styles IN SelectSeq(TagOrder, in)

\* setTagStyles as it would be if the table given replaced the stored one.
setTagStylesReplacing(s, styles, skipUpdate) ==
  updateIfShould(Dirty(setEachStyle([s EXCEPT !.tagStyles = <<>>], styles,
                                    EntryOrder(styles))),
                 skipUpdate)

setTagStyles(s, styles, skipUpdate) ==
  updateIfShould(Dirty(setEachStyle(s, styles, EntryOrder(styles))), skipUpdate)

setDefaultStyle(s, style, skipUpdate) ==
  setStyleForTag(s, DEFAULT_KEY, style, skipUpdate)

removeStylesForTag(s, tag, skipUpdate) ==
  IF tag \in DOMAIN s.tagStyles
  THEN updateIfShould(
         [s EXCEPT !.tagStyles = [k \in DOMAIN @ \ {tag} |-> @[k]],
                   !.needsUpdate = TRUE], skipUpdate)
  ELSE s

\* onImageTextureUpdate as it would be if the event always ran a pass.
onImageTextureUpdateAlways(s) ==
  update([s EXCEPT !.needsUpdate = TRUE, !.needsDraw = TRUE], "undefined")

onImageTextureUpdate(s) ==
  updateIfShould([s EXCEPT !.needsUpdate = TRUE, !.needsDraw = TRUE], "undefined")

(***************************************************************************)
(* toDebugString().  The string is the untagged text, a rule, and one      *)
(* entry per segment; arrays of words and of lines are joined by commas,   *)
(* as JavaScript converts an array to a string.  The font line of an entry *)
(* is left out: the modelled segments carry no font metrics.               *)
(***************************************************************************)
RECURSIVE Join(_, _)
Join(strs, sep) ==
  IF strs = <<>> THEN ""
  ELSE IF Len(strs) = 1 THEN Head(strs)
  ELSE Head(strs) \o sep \o Join(Tail(strs), sep)

\* removeTags of the parser: the literal text of the markup.
removeTags(t) == Join([i \in 1..Len(Chunks(t)) |-> Chunks(t)[i].body], "")

isNewlineToken(t) == isTextToken(t) /\ t.content = "\n"

TokenText(token) ==
  IF isTextToken(token)
  THEN IF isNewlineToken(token) THEN "\\n" ELSE "\"" \o token.content \o "\""
  ELSE IF isSpriteToken(token) THEN "[Image]" ELSE ""

TagsString(tags) ==
  IF Len(tags) = 0
  THEN "<none>"
  ELSE Join([i \in 1..Len(tags) |-> "<" \o tags[i] \o ">"], ", ")

\* Object.entries(style) joined: a key that is not set gives no entry, an
\* undefined value an empty string.
StyleKeys == <<"imgSrc", "underline">>

StyleString(style) ==
  Join([i \in 1..Len(SelectSeq(StyleKeys, LAMBDA k : style[k] # ABSENT)) |->
          SelectSeq(StyleKeys, LAMBDA k : style[k] # ABSENT)[i] \o ":"
            \o (IF style[SelectSeq(StyleKeys, LAMBDA k : style[k] # ABSENT)[i]] = UNDEFINED
                THEN ""
                ELSE style[SelectSeq(StyleKeys, LAMBDA k : style[k] # ABSENT)[i]])],
       "; ")

SizeString(b) ==
  "x:" \o ToString(b.x) \o " y:" \o ToString(b.y)
    \o " width:" \o ToString(b.width) \o " height:" \o ToString(b.height)
    \o " bottom:" \o ToString(b.height + b.y)
    \o " right:" \o ToString(b.x + b.width)

TokenString(token, lineNumber, wordNumber, tokenNumber) ==
  "\n" \o TokenText(token) \o ": (" \o ToString(lineNumber) \o "/"
    \o ToString(wordNumber) \o "/" \o ToString(tokenNumber) \o ")"
    \o "\n    tags: " \o TagsString(token.tags)
    \o "\n    style: " \o StyleString(token.style)
    \o "\n    size: " \o SizeString(token.bounds)

LinesString(lines) ==
  Join([l \in 1..Len(lines) |->
          Join([w \in 1..Len(lines[l]) |->
                  Join([k \in 1..Len(lines[l][w]) |->
                          TokenString(lines[l][w][k], l - 1, w - 1, k - 1)],
                       "\n")],
               ",")],
       ",")

\* toDebugString as it would be if it were made from the tokens alone.
toDebugStringOfTokens(s) == "\n=====\n" \o LinesString(s.tokens)

\* this.untaggedText is removeTags(this.text)
toDebugString(s) == removeTags(s.text) \o "\n=====\n" \o LinesString(s.tokens)

(***************************************************************************)
(* destroy() and destroyImgMap().  Container.destroy of the library does   *)
(* nothing to a container that is already destroyed; otherwise it marks it *)
(* destroyed and, asked to, destroys the textures of its children.         *)
(***************************************************************************)
ContainerDestroy(container, children, texture) ==
  IF container.destroyed
  THEN container
  ELSE [destroyed |-> TRUE,
        texturesDestroyed |->
          IF texture THEN {children[i].sprite : i \in DOMAIN children} ELSE {}]

\* destroyImgMap as it would be without the test of this.destroyed.
destroyImgMapUnguarded(s) ==
  [s EXCEPT !.spriteContainer = ContainerDestroy(@, s.sprites, TRUE)]

destroyImgMap(s) ==
  IF s.destroyed
  THEN [s EXCEPT !.tr.threw = TRUE]
  ELSE [s EXCEPT !.spriteContainer = ContainerDestroy(@, s.sprites, TRUE)]

\* {} as _options: every option reads undefined.
EmptyOptions ==
  [skipUpdates |-> "undefined", skipDraw |-> "undefined",
   drawWhitespace |-> "undefined", errorHandler |-> "none",
   imgMap |-> [defined |-> FALSE, keys |-> {}, sources |-> <<>>]]

\* destroy as it would be if _options were the object the caller passed: the
\* three assignments before _options = {} would be made to that object.
destroySharingOptions(s) ==
  [s EXCEPT !.spriteContainer = ContainerDestroy(@, s.sprites, FALSE),
            !.destroyed = TRUE,
            !.textFields = <<>>, !.sprites = <<>>, !.decorations = <<>>,
            !.spriteTemplates = {}, !.tokens = <<>>, !.tagStyles = <<>>,
            !.passed.options = [@ EXCEPT !.imgMap = [defined |-> TRUE, keys |-> {},
                                                    sources |-> <<>>],
                                         !.skipUpdates = "true",
                                         !.skipDraw = "true"],
            !.options = EmptyOptions]

\* The sprite container is destroyed without its children, super.destroy sets
\* the destroyed flag, the fields are emptied; _options, the object the
\* constructor made, gets imgMap = {}, skipUpdates and skipDraw = true and is
\* then replaced by {}.
destroy(s) ==
  [s EXCEPT !.spriteContainer = ContainerDestroy(@, s.sprites, FALSE),
            !.destroyed = TRUE,
            !.textFields = <<>>, !.sprites = <<>>, !.decorations = <<>>,
            !.spriteTemplates = {}, !.tokens = <<>>, !.tagStyles = <<>>,
            !.options = EmptyOptions]

(***************************************************************************)
(* Construction.                                                           *)
(***************************************************************************)
NoTrace ==
  [hdepth |-> 0, depth |-> 0, maxDepth |-> 0, updates |-> 0, draws |-> 0,
   warnings |-> <<>>, threw |-> FALSE, ret |-> <<>>, stored |-> <<>>,
   passText |-> <<>>, passStyles |-> <<>>, debug |-> ""]

\* The field initialisers of the class.
Fresh(opts) ==
  [text |-> "", needsUpdate |-> TRUE, needsDraw |-> TRUE, tokens |-> <<>>,
   tagStyles |-> <<>>, options |-> opts, textFields |-> <<>>, sprites |-> <<>>,
   decorations |-> <<>>, spriteTemplates |-> {}, listeners |-> {},
   destroyed |-> FALSE, spriteContainer |-> NewContainer,
   passed |-> [options |-> opts, tagStyles |-> <<>>, defaultStyle |-> DEFAULT_STYLE],
   tr |-> NoTrace]

EmptyStyle == [imgSrc |-> ABSENT, underline |-> ABSENT]

\* getStyleForTag(key) ?? {}
getStyleForTag(s, tag) ==
  IF tag \in DOMAIN s.tagStyles THEN s.tagStyles[tag] ELSE EmptyStyle

\* What an entry of the image map can be: a live Sprite, a live texture or
\* other sprite source, a value of no accepted format, a destroyed Sprite and
\* a destroyed texture.
SourceKinds == {"Sprite", "Texture", "number", "destroyedSprite", "destroyedTexture"}

\* An image map, given as a function from its keys to their sources.
ImgMap(sources) == [defined |-> TRUE, keys |-> DOMAIN sources, sources |-> sources]

\* error: wrongFormatError for a source that is no Sprite, sprite source or
\* texture source; destroyedError for a destroyed Sprite or texture.
SourceError(spriteSource) ==
  CASE spriteSource = "number" -> "wrongFormat"
    [] spriteSource \in {"destroyedSprite", "destroyedTexture"} -> "destroyed"
    [] OTHER -> "none"

\* One entry as it would be if the source were not examined.
RegisterSpriteUnchecked(s, key, spriteSource) ==
  setStyleForTag([s EXCEPT !.listeners = @ \cup {key},
                           !.spriteTemplates = @ \cup {key}],
                 key,
                 Spread([imgSrc |-> key, underline |-> ABSENT],
                        getStyleForTag(s, key)),
                 "undefined")

\* One entry of the image map: the error thrown, or the listener, the
\* template and the style.
RegisterSprite(s, key, spriteSource) ==
  IF SourceError(spriteSource) # "none"
  THEN [s EXCEPT !.tr.threw = TRUE]
  ELSE setStyleForTag([s EXCEPT !.listeners = @ \cup {key},
                                !.spriteTemplates = @ \cup {key}],
                      key,
                      Spread([imgSrc |-> key, underline |-> ABSENT],
                             getStyleForTag(s, key)),
                      "undefined")

\* Object.entries(imgMap).forEach, ended by the first error thrown.
RECURSIVE registerSprites(_, _, _)
registerSprites(s, imgMap, keys) ==
  IF keys = <<>> \/ s.tr.threw
  THEN s
  ELSE registerSprites(RegisterSprite(s, Head(keys), imgMap.sources[Head(keys)]),
                       imgMap, Tail(keys))

createSpriteTemplatesFromSourceMap(s, imgMap) ==
  LET in(k) == k \in imgMap.keys
  IN registerSprites([s EXCEPT !.spriteTemplates = {}], imgMap,
                     SelectSeq(TagOrder, in))

\* tagStyles = { default: {}, ...tagStyles }, its default merged over DEFAULT_STYLE
InitialStyles(styles0) ==
  PutStyle(styles0, DEFAULT_KEY,
           Spread(DEFAULT_STYLE,
                  IF DEFAULT_KEY \in DOMAIN styles0
                  THEN styles0[DEFAULT_KEY] ELSE EmptyStyle))

RegisterImgMap(s) ==
  IF s.options.imgMap.defined
  THEN createSpriteTemplatesFromSourceMap(s, s.options.imgMap)
  ELSE s

\* The constructor as far as this.tagStyles = tagStyles.
ConstructStyles(styles0, opts) ==
  setTagStyles(resetChildren([Fresh(opts) EXCEPT !.passed.tagStyles = styles0]),
               InitialStyles(styles0), "undefined")

\* this.text = text, not reached when the image map threw.
ConstructText(s, text0) ==
  IF s.tr.threw THEN s ELSE setText(s, text0, "undefined")

constructor(text0, styles0, opts) ==
  ConstructText(RegisterImgMap(ConstructStyles(styles0, opts)), text0)

(***************************************************************************)
(* The state machine.                                                      *)
(***************************************************************************)
NoImgMap == [defined |-> FALSE, keys |-> {}, sources |-> <<>>]

\* The options a caller passes to the constructor: how updates and draws are
\* skipped, with or without a handler, and either no image map and hidden
\* whitespace or an image map (with an entry keyed 'default') and drawn
\* whitespace.
SkipInputs ==
  {<<"false", "false">>, <<"true", "false">>, <<"false", "true">>,
   <<"undefined", "undefined">>}

OptionInputs ==
  {[skipUpdates |-> sk[1], skipDraw |-> sk[2],
    drawWhitespace |-> IF img THEN "true" ELSE "false",
    errorHandler |-> h,
    imgMap |-> IF img THEN ImgMap([k \in {DEFAULT_KEY, "icon"} |-> "Sprite"])
               ELSE NoImgMap] :
     sk \in SkipInputs, h \in {"none", "setText"}, img \in BOOLEAN}

\* The number of operations on one instance that the model follows.
MaxOps == 2

\* The style tables a caller passes to the constructor and to setTagStyles.
TableInputs ==
  {<<>>, [k \in {DEFAULT_KEY, "b"} |-> IF k = "b" THEN UnderStyle ELSE IconStyle]}

Self ==
  [text |-> text, needsUpdate |-> needsUpdate, needsDraw |-> needsDraw,
   tokens |-> tokens, tagStyles |-> tagStyles, options |-> options,
   textFields |-> textFields, sprites |-> sprites, decorations |-> decorations,
   spriteTemplates |-> spriteTemplates, listeners |-> listeners,
   destroyed |-> destroyed, spriteContainer |-> spriteContainer, passed |-> passed,
   tr |-> NoTrace]

\* What an operation was (c: its name and arguments) and what it was seen to
\* do (the trace of r): the passes and draws the operation ran itself, the
\* depth to which passes nested, the warnings, the tree the pass stored and
\* returned, and the text and style table the pass read.
Seen(r, c) ==
  [op |-> c.op, skip |-> c.skip, arg |-> c.arg, imgArg |-> c.imgArg,
   again |-> c.again, styles |-> c.styles,
   updates |-> r.tr.updates, draws |-> r.tr.draws,
   maxDepth |-> r.tr.maxDepth, warnings |-> r.tr.warnings, threw |-> r.tr.threw,
   ret |-> r.tr.ret, stored |-> r.tr.stored,
   passText |-> r.tr.passText, passStyles |-> r.tr.passStyles,
   debug |-> r.tr.debug]

Called(op, skip, arg, imgArg) ==
  [op |-> op, skip |-> skip, arg |-> arg, imgArg |-> imgArg, again |-> FALSE,
   styles |-> <<>>]

NoScale == [phase |-> "off"]

Becomes(r, c) ==
  /\ ops < MaxOps
  /\ ops' = ops + 1
  /\ text' = r.text
  /\ needsUpdate' = r.needsUpdate
  /\ needsDraw' = r.needsDraw
  /\ tokens' = r.tokens
  /\ tagStyles' = r.tagStyles
  /\ options' = r.options
  /\ textFields' = r.textFields
  /\ sprites' = r.sprites
  /\ decorations' = r.decorations
  /\ spriteTemplates' = r.spriteTemplates
  /\ listeners' = r.listeners
  /\ destroyed' = r.destroyed
  /\ spriteContainer' = r.spriteContainer
  /\ passed' = r.passed
  /\ call' = Seen(r, c)
  /\ UNCHANGED scale

ImgOnDefault(styles) ==
  DEFAULT_KEY \in DOMAIN styles /\ Truthy(styles[DEFAULT_KEY].imgSrc)

\* The instance as the constructor leaves it.
Constructed(text0, styles0, opts, r) ==
  /\ text = r.text
  /\ needsUpdate = r.needsUpdate
  /\ needsDraw = r.needsDraw
  /\ tokens = r.tokens
  /\ tagStyles = r.tagStyles
  /\ options = r.options
  /\ textFields = r.textFields
  /\ sprites = r.sprites
  /\ decorations = r.decorations
  /\ spriteTemplates = r.spriteTemplates
  /\ listeners = r.listeners
  /\ destroyed = r.destroyed
  /\ spriteContainer = r.spriteContainer
  /\ passed = r.passed
  /\ call = Seen(r, Called("constructor", "undefined", text0,
                           ImgOnDefault(styles0)
                             \/ DEFAULT_KEY \in opts.imgMap.keys))
  /\ ops = 0

Init ==
  /\ \E text0 \in {"", "a <b>x</b>"}, styles0 \in TableInputs, opts \in OptionInputs :
       Constructed(text0, styles0, opts, constructor(text0, styles0, opts))
  /\ scale = NoScale

SetText ==
  \E t \in Texts, sk \in TRI :
    Becomes(setText(Self, t, sk), Called("setText", sk, t, FALSE))

\* The tables given to setTagStyles: those of TableInputs and one that names
\* the tag b alone.
MergeInputs == TableInputs \cup {[k \in {"b"} |-> PlainStyle]}

SetTagStyles ==
  \E styles \in MergeInputs, sk \in TRI :
    Becomes(setTagStyles(Self, styles, sk),
            [Called("setTagStyles", sk, "", ImgOnDefault(styles)) EXCEPT
               !.styles = styles])

SetStyleForTag ==
  \E tag \in {DEFAULT_KEY, "b"}, style \in StyleInputs, sk \in TRI :
    Becomes(setStyleForTag(Self, tag, style, sk),
            Called("setStyleForTag", sk, tag,
                   tag = DEFAULT_KEY /\ Truthy(style.imgSrc)))

SetDefaultStyle ==
  \E style \in StyleInputs, sk \in TRI :
    Becomes(setDefaultStyle(Self, style, sk),
            Called("setDefaultStyle", sk, DEFAULT_KEY, Truthy(style.imgSrc)))

RemoveStylesForTag ==
  \E tag \in Tags, sk \in TRI :
    Becomes(removeStylesForTag(Self, tag, sk),
            Called("removeStylesForTag", sk, tag, FALSE))

\* An explicit update(skipDraw).  It is a repetition ("again") when the
\* operation before it was an update that read the text and the style table
\* as they are now.
Update ==
  \E sd \in TRI :
    Becomes(update(Self, sd),
            [Called("update", sd, "", FALSE) EXCEPT
               !.again = /\ call.op = "update"
                         /\ call.passText = <<text>>
                         /\ call.passStyles = <<tagStyles>>])

Draw == Becomes(draw(Self), Called("draw", "undefined", "", FALSE))

\* baseTexture.removeListener('update', onTextureUpdate), which a throw of
\* the listener's first statement does not reach.
RemoveListener(r, key) ==
  IF r.tr.threw THEN r ELSE [r EXCEPT !.listeners = @ \ {key}]

\* The texture of a registered sprite template fires 'update'; the listener
\* runs and removes itself.
TextureUpdate ==
  \E key \in listeners :
    Becomes(RemoveListener(onImageTextureUpdate(Self), key),
            Called("onImageTextureUpdate", "undefined", key, FALSE))

Next ==
  \/ SetText
  \/ SetTagStyles
  \/ SetStyleForTag
  \/ SetDefaultStyle
  \/ RemoveStylesForTag
  \/ Update
  \/ Draw
  \/ TextureUpdate

Spec == Init /\ [][Next]_vars

(***************************************************************************)
(* The scaling of one text field: a text token with any of the scale       *)
(* factors and font sizes below is given to createTextFieldForToken.       *)
(***************************************************************************)
ScaleInputs ==
  {Undef, NaN, Inf(-1), Fin(-1, 1), Zero, Fin(1, 2), One, Fin(2, 1), Fin(3, 1),
   Inf(1)}

DefaultOptions ==
  [skipUpdates |-> "false", skipDraw |-> "false", drawWhitespace |-> "false",
   errorHandler |-> "none", imgMap |-> NoImgMap]

InitScale ==
  /\ Constructed("", <<>>, DefaultOptions, constructor("", <<>>, DefaultOptions))
  /\ \E w \in ScaleInputs, h \in ScaleInputs, fs \in {NoSize, NumberSize(Fin(10, 1)), StringSize("12px")} :
       scale = [phase |-> "token",
                token |-> [kind |-> "text", content |-> "x",
                           style |-> [fontScaleWidth |-> w, fontScaleHeight |-> h,
                                      fontSize |-> fs]],
                field |-> createTextField("", <<>>)]

CreateTextFieldForToken ==
  /\ scale.phase = "token"
  /\ scale' = [scale EXCEPT !.phase = "field",
                            !.field = createTextFieldForToken(scale.token)]
  /\ UNCHANGED <<text, needsUpdate, needsDraw, tokens, tagStyles, options,
                 textFields, sprites, decorations, spriteTemplates, listeners,
                 destroyed, spriteContainer, passed, call, ops>>

NextScale == CreateTextFieldForToken

SpecScale == InitScale /\ [][NextScale]_vars

(***************************************************************************)
(* Drawing: an instance built with skipDraw for the text 'a <b>x</b>',     *)
(* with any of the underline colours below for the tag b and any of the    *)
(* overdraw options, its tree measured at any of the widths; draw() is     *)
(* then called.                                                            *)
(***************************************************************************)
DrawOptions(dw, o) ==
  [skipUpdates |-> "false", skipDraw |-> "true", drawWhitespace |-> dw,
   errorHandler |-> "none", imgMap |-> NoImgMap, overdrawDecorations |-> o]

Underlined(c) == [k \in {"b"} |-> [imgSrc |-> ABSENT, underline |-> c]]

\* The instance with its tree as the layout measures it at width w.
Measured(r, w) ==
  [r EXCEPT !.tokens = PassMeasured(r.text, r.tagStyles, {}, w)]

InitDraw ==
  /\ \E c \in {"#ff0000", "red", "#", "255"},
        o \in {Undef, Fin(-2, 1), Fin(-1, 1), Fin(-1, 2), Fin(1, 1)},
        dw \in {"true", "false"}, w \in {0, 1, 3} :
       Constructed("a <b>x</b>", Underlined(c), DrawOptions(dw, o),
                   Measured(constructor("a <b>x</b>", Underlined(c), DrawOptions(dw, o)),
                            w))
  /\ scale = NoScale

NextDraw == Draw

SpecDraw == InitDraw /\ [][NextDraw]_vars

(***************************************************************************)
(* Disposal: destroy() and destroyImgMap() in any order on a constructed   *)
(* instance, with the setters and update() before and after them.          *)
(***************************************************************************)
Destroy == Becomes(destroy(Self), Called("destroy", "undefined", "", FALSE))

DestroyImgMap ==
  Becomes(destroyImgMap(Self), Called("destroyImgMap", "undefined", "", FALSE))

\* The style tables of the instances disposed of: those of TableInputs and
\* one that makes the tag b an image.
InitDestroy ==
  /\ \E text0 \in {"", "a <b>x</b>"}, styles0 \in TableInputs
          \cup {[k \in {DEFAULT_KEY, "b"} |-> IF k = "b" THEN IconStyle ELSE PlainStyle]},
        opts \in OptionInputs :
       Constructed(text0, styles0, opts, constructor(text0, styles0, opts))
  /\ scale = NoScale

NextDestroy ==
  \/ Destroy
  \/ DestroyImgMap
  \/ SetText
  \/ SetTagStyles
  \/ SetStyleForTag
  \/ SetDefaultStyle
  \/ RemoveStylesForTag
  \/ Update

SpecDestroy == InitDestroy /\ [][NextDestroy]_vars

(***************************************************************************)
(* The debug string of an instance, asked for after any change of the text *)
(* or an update.                                                           *)
(***************************************************************************)
ToDebugString ==
  Becomes([Self EXCEPT !.tr.debug = toDebugString(Self)],
          Called("toDebugString", "undefined", "", FALSE))

NextDebug == SetText \/ Update \/ ToDebugString

SpecDebug == Init /\ [][NextDebug]_vars

(***************************************************************************)
(* Registration of the image map: the constructor has stored the styles,   *)
(* and createSpriteTemplatesFromSourceMap is given any map of the keys     *)
(* below to sources of any kind.                                           *)
(***************************************************************************)
ImgOptions(sk, h, sources) ==
  [skipUpdates |-> sk[1], skipDraw |-> sk[2], drawWhitespace |-> "false",
   errorHandler |-> h, imgMap |-> ImgMap(sources)]

\* The style tables of the instances: none, and one with a decoration for b
\* and an image reference of its own for icon.
InitImgMap ==
  /\ \E styles0 \in
          {<<>>,
           [k \in {"b", "icon"} |->
              IF k = "b" THEN UnderStyle
              ELSE [imgSrc |-> "b", underline |-> "#ff0000"]]},
        sk \in SkipInputs, h \in {"none", "setText"},
        sources \in
          UNION {[keys -> SourceKinds] : keys \in SUBSET {DEFAULT_KEY, "b", "icon"}} :
       Constructed("", styles0, ImgOptions(sk, h, sources),
                   ConstructStyles(styles0, ImgOptions(sk, h, sources)))
  /\ scale = NoScale

CreateSpriteTemplatesFromSourceMap ==
  /\ call.op = "constructor"
  /\ Becomes(RegisterImgMap(Self),
             Called("createSpriteTemplatesFromSourceMap", "undefined", "", FALSE))

NextImgMap == CreateSpriteTemplatesFromSourceMap

SpecImgMap == InitImgMap /\ [][NextImgMap]_vars

(***************************************************************************)
(* Properties.  They are stated over the operation last performed (call)   *)
(* and the state it left, and over steps where the state before matters.   *)
(***************************************************************************)
Setters ==
  {"setText", "setTagStyles", "setStyleForTag", "setDefaultStyle",
   "removeStylesForTag"}

StyleSetters == Setters \ {"setText"}

Templates == IF options.imgMap.defined THEN spriteTemplates ELSE {}

\* In a step: the setter gets as far as updateIfShould.  setText returns
\* early for the stored text when nothing is pending, removeStylesForTag for
\* a tag that is not in the table.
ReachesUpdateIfShould ==
  CASE call'.op = "setText" -> ~(call'.arg = text /\ needsUpdate = FALSE)
    [] call'.op = "removeStylesForTag" -> call'.arg \in DOMAIN tagStyles
    [] OTHER -> TRUE

WantsUpdate(sk) ==
  sk = "false" \/ (sk = "undefined" /\ options.skipUpdates = "false")

C2_UpdateSkipDraw ==
  (call.op = "update" /\ ~call.threw) =>
    /\ call.updates = 1
    /\ needsUpdate = FALSE
    /\ call.skip = "true" => (call.draws = 0 /\ needsDraw = TRUE)
    /\ call.skip = "false" => (call.draws = 1 /\ needsDraw = FALSE)
    /\ call.skip = "undefined" => (call.draws = 1 <=> options.skipDraw = "false")
    /\ call.skip = "undefined" => (call.draws = 0 <=> options.skipDraw # "false")
    /\ call.ret = call.stored
    /\ Len(call.ret) = 1
    /\ options.errorHandler = "none" => call.ret = <<tokens>>

C2_Witness ==
  /\ call.op = "update"
  /\ call.skip = "true"
  /\ options.skipDraw = "false"
  /\ ~call.threw
  /\ call.draws = 0
  /\ call.ret = <<tokens>>
  /\ tokens # <<>>

\* C3: a setter called without skipUpdate under options.skipUpdates = false
\* that changes the text or the style table runs one pass before it returns;
\* the pass reads the new text, respectively the new style table, and stores
\* the tree the whole pipeline gives for what it read; the setter returns
\* with needsUpdate false, and with needsDraw false when options.skipDraw is
\* false.
C3_SettersRebuild ==
  [][(/\ call'.op \in Setters
      /\ call'.skip = "undefined"
      /\ options.skipUpdates = "false"
      /\ ReachesUpdateIfShould
      /\ ~call'.threw) =>
       /\ call'.updates = 1
       /\ needsUpdate' = FALSE
       /\ options.skipDraw = "false" => needsDraw' = FALSE
       /\ call'.op = "setText" => call'.passText = <<call'.arg>>
       /\ call'.op \in StyleSetters => call'.passStyles = <<tagStyles'>>
       /\ call'.stored = <<Pass(call'.passText[1], call'.passStyles[1], Templates)>>
       /\ options.errorHandler = "none" => tokens' = Pass(text', tagStyles', Templates)]_vars

C3_Witness ==
  /\ call.op = "setText"
  /\ call.skip = "undefined"
  /\ options.skipUpdates = "false"
  /\ options.skipDraw = "false"
  /\ call.arg = "a <b>x</b>"
  /\ call.updates = 1
  /\ tokens = Pass("a <b>x</b>", tagStyles, Templates)
  /\ tokens # <<>>
  /\ needsUpdate = FALSE
  /\ needsDraw = FALSE

\* C4 as stated: the 'update' event of a template's texture always runs a
\* pass.
C4_AsStated ==
  call.op = "onImageTextureUpdate" => call.updates >= 1

\* C4: the 'update' event of a registered template's texture sets needsUpdate
\* and needsDraw; it runs one pass when options.skipUpdates is false, and
\* otherwise runs none and leaves both flags set and the tree as it was.
C4_TextureUpdate ==
  [][call'.op = "onImageTextureUpdate" =>
       /\ call'.arg \in listeners
       /\ IF options.skipUpdates = "false"
          THEN /\ call'.updates = 1
               /\ ~call'.threw => needsUpdate' = FALSE
               /\ ~call'.threw => call'.stored = <<Pass(text, tagStyles, Templates)>>
               /\ call'.threw => (needsUpdate' /\ needsDraw')
          ELSE /\ call'.updates = 0
               /\ needsUpdate'
               /\ needsDraw'
               /\ tokens' = tokens]_vars

C4_Witness ==
  /\ call.op = "onImageTextureUpdate"
  /\ options.skipUpdates = "true"
  /\ call.updates = 0
  /\ needsUpdate
  /\ needsDraw

\* C5 as stated: no pass starts while another pass of the instance is in
\* progress, the handler included, and the tree a completed pass leaves in
\* tokens is the tree of the current text and style table.
C5_NoInterleaving ==
  /\ call.maxDepth <= 1
  /\ (call.updates >= 1 /\ ~call.threw) => tokens = Pass(text, tagStyles, Templates)

\* C6: an update() that follows an update() with the text, the style table,
\* the options and the templates unchanged (between the two calls and by the
\* handler during the second) returns and stores an equal tree;
\* called with the same argument it also leaves needsUpdate, needsDraw and
\* the lengths of textFields, sprites and decorations as they were.
C6_Idempotent ==
  [][(call'.again /\ text' = text /\ tagStyles' = tagStyles) =>
       /\ call'.ret = call.ret
       /\ tokens' = tokens
       /\ needsUpdate' = needsUpdate
       /\ call'.skip = call.skip =>
            /\ needsDraw' = needsDraw
            /\ Len(textFields') = Len(textFields)
            /\ Len(sprites') = Len(sprites)
            /\ Len(decorations') = Len(decorations)]_vars

C6_Witness ==
  /\ call.op = "update"
  /\ call.again
  /\ call.skip = "false"
  /\ ~call.threw
  /\ call.ret = <<tokens>>
  /\ tokens # <<>>
  /\ Len(textFields) > 0
  /\ Len(decorations) > 0

CountOf(q, code) == Cardinality({i \in DOMAIN q : q[i] = code})

\* C8: the stored default style never carries a truthy image reference; the
\* pass an operation runs itself reads a style table whose default carries
\* none; and an operation given a truthy image reference for the default
\* style (or an image map with an entry keyed 'default') raises exactly one
\* warning for it, any other operation none.
C8_NoImgOnDefault ==
  /\ ~ImgOnDefault(tagStyles)
  /\ call.passStyles # <<>> => ~ImgOnDefault(call.passStyles[1])
  /\ CountOf(call.warnings, "imgSrc-on-default") = IF call.imgArg THEN 1 ELSE 0

C8_Witness ==
  /\ call.op = "setDefaultStyle"
  /\ call.imgArg
  /\ call.updates = 1
  /\ DEFAULT_KEY \in DOMAIN tagStyles
  /\ tagStyles[DEFAULT_KEY].imgSrc = UNDEFINED
  /\ CountOf(call.warnings, "imgSrc-on-default") = 1

\* C9 as stated: the style table always has the 'default' entry.
C9_DefaultExists == DEFAULT_KEY \in DOMAIN tagStyles

\* The scale factors and the font size a token in SpecScale was given.
GivenScale(key) ==
  IF scale.token.style[key].kind = "undefined" THEN One ELSE scale.token.style[key]

GivenSize ==
  CASE scale.token.style.fontSize.type = "undefined" -> Zero
    [] scale.token.style.fontSize.type = "string" ->
         fontSizeStringToNumber(scale.token.style.fontSize.s)
    [] OTHER -> scale.token.style.fontSize.v

\* The function of C10 for scale factors w and h with m = max(w, h).
Normalized(w, h, m) ==
  IF Lt(One, m)
  THEN /\ StrictEq(h, m) => scale.field.scale = [x |-> Div(w, m), y |-> One]
       /\ ~StrictEq(h, m) => scale.field.scale = [x |-> One, y |-> Div(h, m)]
       /\ scale.field.fontSize = NumberSize(Mul(GivenSize, m))
  ELSE /\ scale.field.scale = [x |-> w, y |-> h]
       /\ scale.field.fontSize = scale.token.style.fontSize

\* C10 as stated: the text field is scaled by that function of the scale
\* factors as given (each defaulting to 1).
C10_AsStated ==
  scale.phase = "field" =>
    Normalized(GivenScale("fontScaleWidth"), GivenScale("fontScaleHeight"),
               MathMax(GivenScale("fontScaleWidth"), GivenScale("fontScaleHeight")))

NonNegative(v) == IF IsNaN(v) \/ Lt(v, Zero) THEN Zero ELSE v

\* C10: with w and h the scale factors after defaulting to 1 and after NaN
\* and negative values are replaced by 0, and m = max(w, h): if m > 1 the
\* axis equal to m gets scale 1 (the height when both are), the other axis
\* its factor divided by m, and the font size is multiplied by m; otherwise
\* both factors are applied as they are and the font size is left alone.  So
\* (2,1) gives (1,1/2) and (1,3) gives (1/3,1).
C10_ScaleNormalization ==
  scale.phase = "field" =>
    /\ Normalized(NonNegative(GivenScale("fontScaleWidth")),
                  NonNegative(GivenScale("fontScaleHeight")),
                  MathMax(NonNegative(GivenScale("fontScaleWidth")),
                          NonNegative(GivenScale("fontScaleHeight"))))
    /\ (/\ scale.token.style.fontScaleWidth = Fin(2, 1)
        /\ scale.token.style.fontScaleHeight = One)
         => scale.field.scale = [x |-> One, y |-> Fin(1, 2)]
    /\ (/\ scale.token.style.fontScaleWidth = One
        /\ scale.token.style.fontScaleHeight = Fin(3, 1))
         => scale.field.scale = [x |-> Fin(1, 3), y |-> One]

C10_Witness ==
  /\ scale.phase = "field"
  /\ scale.token.style.fontScaleWidth = One
  /\ scale.token.style.fontScaleHeight = Fin(3, 1)
  /\ scale.token.style.fontSize = StringSize("12px")
  /\ scale.field.scale = [x |-> Fin(1, 3), y |-> One]
  /\ scale.field.fontSize = NumberSize(Fin(36, 1))

Exceeds1(v) == Lt(One, v)

ExactlyOneExceeds1 ==
  /\ scale.phase = "field"
  /\ Exceeds1(GivenScale("fontScaleWidth")) # Exceeds1(GivenScale("fontScaleHeight"))

\* C11 as stated: when exactly one of the two scale factors exceeds 1, the
\* font size is multiplied by the larger factor and the final scale of the
\* smaller axis is 1.
C11_AsStated ==
  ExactlyOneExceeds1 =>
    /\ scale.field.fontSize =
         NumberSize(Mul(GivenSize, MathMax(GivenScale("fontScaleWidth"),
                                           GivenScale("fontScaleHeight"))))
    /\ Exceeds1(GivenScale("fontScaleWidth")) => scale.field.scale.y = One
    /\ Exceeds1(GivenScale("fontScaleHeight")) => scale.field.scale.x = One

\* C11: when exactly one of the two scale factors exceeds 1, the font size
\* is multiplied by that factor, the final scale of that (larger) axis is 1,
\* and the final scale of the other axis is its factor (0 for NaN or a
\* negative number) divided by the larger one, which is below 1.
C11_LargerAxisDrives ==
  ExactlyOneExceeds1 =>
    /\ Exceeds1(GivenScale("fontScaleWidth")) =>
         /\ scale.field.fontSize =
              NumberSize(Mul(GivenSize, GivenScale("fontScaleWidth")))
         /\ scale.field.scale.x = One
         /\ scale.field.scale.y =
              Div(NonNegative(GivenScale("fontScaleHeight")),
                  GivenScale("fontScaleWidth"))
    /\ Exceeds1(GivenScale("fontScaleHeight")) =>
         /\ scale.field.fontSize =
              NumberSize(Mul(GivenSize, GivenScale("fontScaleHeight")))
         /\ scale.field.scale.y = One
         /\ scale.field.scale.x =
              Div(NonNegative(GivenScale("fontScaleWidth")),
                  GivenScale("fontScaleHeight"))
    /\ Lt(scale.field.scale.x, One) \/ Lt(scale.field.scale.y, One)

C11_Witness ==
  /\ scale.phase = "field"
  /\ scale.token.style.fontScaleWidth = Fin(2, 1)
  /\ scale.token.style.fontScaleHeight = Fin(1, 2)
  /\ scale.token.style.fontSize = NumberSize(Fin(10, 1))
  /\ scale.field.fontSize = NumberSize(Fin(20, 1))
  /\ scale.field.scale = [x |-> One, y |-> Fin(1, 4)]

IsFinite(v) == v.kind = "fin"

\* C12 as stated: whatever the scale factors, the final scales are finite and
\* not negative and a font size written to the field is finite.
C12_FiniteGeometry ==
  scale.phase = "field" =>
    /\ IsFinite(scale.field.scale.x) /\ ~Lt(scale.field.scale.x, Zero)
    /\ IsFinite(scale.field.scale.y) /\ ~Lt(scale.field.scale.y, Zero)
    /\ scale.field.fontSize.type = "number" => IsFinite(scale.field.fontSize.v)

\* The tokens draw() draws, and the decorations of the text tokens among them.
Drawn ==
  IF options.drawWhitespace = "true"
  THEN tokensFlat(tokens)
  ELSE SelectSeq(tokensFlat(tokens), isNotWhitespaceToken)

RECURSIVE DecorationsOf(_)
DecorationsOf(toks) ==
  IF toks = <<>>
  THEN <<>>
  ELSE (IF isTextToken(Head(toks)) THEN Head(toks).textDecorations ELSE <<>>)
         \o DecorationsOf(Tail(toks))

DrewDecorations ==
  /\ call.op = "draw"
  /\ call.maxDepth = 0
  /\ Len(decorations) = Len(DecorationsOf(Drawn))
  /\ Len(decorations) > 0

Half(w) == Div(Fin(w, 1), Fin(2, 1))

\* C13: the width of every rectangle drawn for a decoration is not negative;
\* it is bounds.width + 2 * overdraw when overdraw >= -bounds.width / 2 and
\* 0 when overdraw is below that.
C13_DecorationWidth ==
  DrewDecorations =>
    \A i \in DOMAIN decorations :
      /\ ~Lt(decorations[i].rect.width, Zero)
      /\ ~Lt(Overdraw(options), Neg(Half(DecorationsOf(Drawn)[i].bounds.width))) =>
           decorations[i].rect.width =
             Add(Fin(DecorationsOf(Drawn)[i].bounds.width, 1),
                 Add(Overdraw(options), Overdraw(options)))
      /\ Lt(Overdraw(options), Neg(Half(DecorationsOf(Drawn)[i].bounds.width))) =>
           decorations[i].rect.width = Zero

C13_Witness ==
  /\ DrewDecorations
  /\ Overdraw(options) = Fin(-2, 1)
  /\ DecorationsOf(Drawn)[1].bounds.width = 3
  /\ decorations[1].rect.width = Zero

RECURSIVE CountInvalid(_)
CountInvalid(ds) ==
  IF ds = <<>>
  THEN 0
  ELSE (IF InvalidColour(Head(ds).color) THEN 1 ELSE 0) + CountInvalid(Tail(ds))

\* C17 as stated: a string colour that does not start with '#' raises the
\* 'invalid-color' warning and the rectangle is filled with a numeric colour;
\* '#ff0000' is filled as the number 0xff0000 and a numeric colour as it is,
\* both without a warning.
C17_ColourCorrected ==
  DrewDecorations =>
    /\ CountOf(call.warnings, "invalid-color") = CountInvalid(DecorationsOf(Drawn))
    /\ \A i \in DOMAIN decorations :
         /\ InvalidColour(DecorationsOf(Drawn)[i].color) =>
              decorations[i].color.type = "number"
         /\ DecorationsOf(Drawn)[i].color = StringColour("#ff0000") =>
              decorations[i].color = NumberColour(16711680)
         /\ DecorationsOf(Drawn)[i].color.type = "number" =>
              decorations[i].color = DecorationsOf(Drawn)[i].color

\* What does hold of the colours: the warning is raised, but the unsupported
\* string itself is what the rectangle is filled with.
C17_ColourAsIs ==
  DrewDecorations =>
    /\ CountOf(call.warnings, "invalid-color") = CountInvalid(DecorationsOf(Drawn))
    /\ \A i \in DOMAIN decorations :
         /\ InvalidColour(DecorationsOf(Drawn)[i].color) =>
              decorations[i].color = DecorationsOf(Drawn)[i].color
         /\ DecorationsOf(Drawn)[i].color = StringColour("#ff0000") =>
              decorations[i].color = NumberColour(16711680)
         /\ DecorationsOf(Drawn)[i].color.type = "number" =>
              decorations[i].color = DecorationsOf(Drawn)[i].color

\* A draw during which no pass replaced the tree.
DrewCurrent == call.op = "draw" /\ call.maxDepth = 0 /\ ~call.threw

C15_TreeReadOnly ==
  [][call'.op = "draw" /\ call'.maxDepth = 0 => tokens' = tokens]_vars

\* A draw that made text fields and decoration rectangles from a tree.
C15_Witness ==
  /\ call.op = "draw"
  /\ call.maxDepth = 0
  /\ Len(tokensFlat(tokens)) > 1
  /\ Len(textFields) > 1
  /\ Len(decorations) > 0

\* C16 as stated: after every draw() textFields has one entry per drawn text
\* token of the current tokens, sprites one per drawn sprite token and
\* decorations one per decoration of the drawn text tokens.
C16_ChildrenOfCurrentTokens ==
  call.op = "draw" =>
    /\ Len(textFields) = Len(SelectSeq(Drawn, isTextToken))
    /\ Len(sprites) = Len(SelectSeq(Drawn, isSpriteToken))
    /\ Len(decorations) = Len(DecorationsOf(Drawn))

\* The same of the draws during which the handler ran no pass.
C16_ChildrenUnlessReplaced ==
  (call.op = "draw" /\ call.maxDepth = 0) =>
    /\ Len(textFields) = Len(SelectSeq(Drawn, isTextToken))
    /\ Len(sprites) = Len(SelectSeq(Drawn, isSpriteToken))
    /\ Len(decorations) = Len(DecorationsOf(Drawn))

\* C20 as stated: whenever needsUpdate is false, tokens is the tree a pass
\* gives for the current text, the current style table and the templates.
C20_DirtyFlagSound ==
  ~needsUpdate => tokens = Pass(text, tagStyles, Templates)

\* The same of the instances without a warning handler.
C20_SoundWithoutHandler ==
  (~needsUpdate /\ options.errorHandler = "none") =>
    tokens = Pass(text, tagStyles, Templates)

\* C18: destroyImgMap() on a destroyed instance throws and changes nothing
\* of the instance; on a live instance it does not throw.
C18_DestroyImgMapBeforeDestroy ==
  [][call'.op = "destroyImgMap" =>
       IF destroyed
       THEN /\ call'.threw
            /\ UNCHANGED <<text, needsUpdate, needsDraw, tokens, tagStyles, options,
                           textFields, sprites, decorations, spriteTemplates,
                           listeners, destroyed, spriteContainer>>
       ELSE ~call'.threw]_vars

\* destroyImgMap() was called after destroy() and threw.
C18_Witness == call.op = "destroyImgMap" /\ destroyed /\ call.threw

\* destroyImgMap() destroyed the textures of the sprites of a live instance.
C18_WitnessLive ==
  /\ call.op = "destroyImgMap"
  /\ ~destroyed
  /\ ~call.threw
  /\ spriteContainer.texturesDestroyed # {}

\* C19 as stated: toDebugString() changes nothing of the component, and the
\* string is that of the tokens alone: it is the string the component gives
\* after its text was changed without an update, the tokens still the same.
C19_PureFunctionOfTokens ==
  [][call'.op = "toDebugString" =>
       /\ UNCHANGED <<text, needsUpdate, needsDraw, tokens, tagStyles, options,
                      textFields, sprites, decorations, spriteTemplates,
                      listeners, destroyed, spriteContainer>>
       /\ \A t \in Texts :
            setText(Self, t, "true").tokens = tokens
              => toDebugString(setText(Self, t, "true")) = call'.debug]_vars

\* The part that holds: toDebugString() changes nothing of the component and
\* returns the untagged text followed by the string of the tokens.
C19_NoSideEffect ==
  [][call'.op = "toDebugString" =>
       /\ UNCHANGED <<text, needsUpdate, needsDraw, tokens, tagStyles, options,
                      textFields, sprites, decorations, spriteTemplates,
                      listeners, destroyed, spriteContainer>>
       /\ call'.debug = removeTags(text) \o toDebugStringOfTokens(Self)]_vars

\* C25: the rectangle drawn for a decoration has its horizontal centre at the
\* centre of the bounds, its left edge not to the right of that centre, and
\* the y and the height of the bounds, whatever the overdraw.
C25_OverdrawSymmetric ==
  DrewDecorations =>
    \A i \in DOMAIN decorations :
      /\ Add(decorations[i].rect.x, Div(decorations[i].rect.width, Fin(2, 1)))
           = Add(Fin(DecorationsOf(Drawn)[i].bounds.x, 1),
                 Half(DecorationsOf(Drawn)[i].bounds.width))
      /\ ~Lt(Add(Fin(DecorationsOf(Drawn)[i].bounds.x, 1),
                 Half(DecorationsOf(Drawn)[i].bounds.width)),
             decorations[i].rect.x)
      /\ decorations[i].rect.y = DecorationsOf(Drawn)[i].bounds.y
      /\ decorations[i].rect.height = DecorationsOf(Drawn)[i].bounds.height

\* A decoration three wide drawn with an overdraw of one: five wide, from one
\* to the left of the bounds.
C25_Witness ==
  /\ DrewDecorations
  /\ Overdraw(options) = One
  /\ DecorationsOf(Drawn)[1].bounds.width = 3
  /\ decorations[1].rect.width = Fin(5, 1)
  /\ decorations[1].rect.x = Fin(DecorationsOf(Drawn)[1].bounds.x - 1, 1)

C23_AsStated ==
  [][call'.op = "setTagStyles" =>
       /\ DOMAIN tagStyles' = DOMAIN tagStyles \cup DOMAIN call'.styles
       /\ \A k \in DOMAIN call'.styles : tagStyles'[k] = call'.styles[k]
       /\ \A k \in DOMAIN tagStyles \ DOMAIN call'.styles : tagStyles'[k] = tagStyles[k]
       /\ call'.updates = IF WantsUpdate(call'.skip) THEN 1 ELSE 0]_vars

\* C23: the same, except that an image reference given on the default style
\* is stored as undefined.
C23_MergesBatched ==
  [][call'.op = "setTagStyles" =>
       /\ DOMAIN tagStyles' = DOMAIN tagStyles \cup DOMAIN call'.styles
       /\ \A k \in DOMAIN call'.styles :
            tagStyles'[k] = IF k = DEFAULT_KEY /\ Truthy(call'.styles[k].imgSrc)
                            THEN [call'.styles[k] EXCEPT !.imgSrc = UNDEFINED]
                            ELSE call'.styles[k]
       /\ \A k \in DOMAIN tagStyles \ DOMAIN call'.styles : tagStyles'[k] = tagStyles[k]
       /\ call'.updates = IF WantsUpdate(call'.skip) THEN 1 ELSE 0]_vars

\* setTagStyles({ b: {} }) on a table with other tags: two styles stored for
\* one pass, the default style kept.
C23_Witness ==
  /\ call.op = "setTagStyles"
  /\ DOMAIN call.styles = {"b"}
  /\ tagStyles["b"] = PlainStyle
  /\ DEFAULT_KEY \in DOMAIN tagStyles
  /\ "icon" \in DOMAIN tagStyles
  /\ call.updates = 1

\* C24: destroy() leaves tokens, textFields, sprites, decorations,
\* spriteTemplates, tagStyles and options empty and does not change the
\* objects the caller passed or the shared default style; on a destroyed
\* instance a setter called without skipUpdate runs neither a pass nor a
\* draw, and update() called without skipDraw runs no draw.
C24_DestroyedQuiescent ==
  [][/\ call'.op = "destroy" =>
          /\ tokens' = <<>>
          /\ textFields' = <<>>
          /\ sprites' = <<>>
          /\ decorations' = <<>>
          /\ spriteTemplates' = {}
          /\ tagStyles' = <<>>
          /\ options' = EmptyOptions
          /\ passed' = passed
     /\ (destroyed /\ call'.op \in Setters /\ call'.skip = "undefined") =>
          call'.updates = 0 /\ call'.draws = 0
     /\ (destroyed /\ call'.op = "update" /\ call'.skip = "undefined") =>
          call'.draws = 0]_vars

\* A setText without skipUpdate on a destroyed instance that was built to
\* update and draw at once: the text is stored and nothing runs.
C24_Witness ==
  /\ destroyed
  /\ call.op = "setText"
  /\ call.skip = "undefined"
  /\ passed.options.skipUpdates = "false"
  /\ passed.options.skipDraw = "false"
  /\ text = call.arg
  /\ needsUpdate
  /\ call.updates = 0
  /\ tokens = <<>>

\* The child lists are those a draw makes of the current tokens.
ChildrenOfTokens ==
  /\ Len(textFields) = Len(SelectSeq(Drawn, isTextToken))
  /\ \A i \in DOMAIN textFields :
       textFields[i].text = SelectSeq(Drawn, isTextToken)[i].content
  /\ Len(sprites) = Len(SelectSeq(Drawn, isSpriteToken))
  /\ \A i \in DOMAIN sprites :
       sprites[i].sprite = SelectSeq(Drawn, isSpriteToken)[i].content
  /\ Len(decorations) = Len(DecorationsOf(Drawn))

\* C21 as stated: whenever needsDraw is false, textFields, sprites and
\* decorations were built by a draw of the tokens as they are now.
C21_DrawFlagSound == ~needsDraw => ChildrenOfTokens

\* The same of the instances without a warning handler.
C21_SoundWithoutHandler ==
  (~needsDraw /\ options.errorHandler = "none") => ChildrenOfTokens

\* A pass that does not draw leaves needsDraw true, and needsDraw becomes
\* false only in an operation that drew.
C21_OnlyDrawClears ==
  [][/\ (call'.updates >= 1 /\ call'.draws = 0 /\ ~call'.threw
           /\ options.errorHandler = "none") => needsDraw'
     /\ (needsDraw /\ ~needsDraw' /\ options.errorHandler = "none") =>
          call'.draws >= 1]_vars

\* The style the registration of a key generates: the image reference equal
\* to the key under the keys of the style the tag had.
Generated(key) ==
  Spread([imgSrc |-> key, underline |-> ABSENT],
         IF key \in DOMAIN tagStyles THEN tagStyles[key] ELSE PlainStyle)

\* A key of the image map whose source is refused.
Refused(key) == SourceError(options.imgMap.sources[key]) # "none"

\* Such a key is left as it was: no template, and the style it had or none.
NotRegistered(key) ==
  /\ key \notin spriteTemplates'
  /\ key \in DOMAIN tagStyles' <=> key \in DOMAIN tagStyles
  /\ key \in DOMAIN tagStyles => tagStyles'[key] = tagStyles[key]

\* C26 as stated: every key with a valid source gets a template and the style
\* it had plus an image reference equal to the key, what the style had
\* winning; a key with a refused source makes the registration throw and gets
\* neither a template nor a style.
C26_AsStated ==
  [][call'.op = "createSpriteTemplatesFromSourceMap" =>
       /\ \A key \in options.imgMap.keys :
            Refused(key) => call'.threw /\ NotRegistered(key)
       /\ ~call'.threw =>
            \A key \in options.imgMap.keys :
              key \in spriteTemplates' /\ tagStyles'[key] = Generated(key)]_vars

\* C26: the same, except that the image reference generated for the key
\* 'default' is stored as undefined.
C26_RegistersOrThrows ==
  [][call'.op = "createSpriteTemplatesFromSourceMap" =>
       /\ \A key \in options.imgMap.keys :
            Refused(key) => call'.threw /\ NotRegistered(key)
       /\ ~call'.threw =>
            \A key \in options.imgMap.keys :
              /\ key \in spriteTemplates'
              /\ tagStyles'[key] =
                   IF key = DEFAULT_KEY /\ Truthy(Generated(key).imgSrc)
                   THEN [Generated(key) EXCEPT !.imgSrc = UNDEFINED]
                   ELSE Generated(key)]_vars

\* A registration that threw at the key icon after it had registered b, the
\* style of b keeping its decoration.
C26_Witness ==
  /\ call.op = "createSpriteTemplatesFromSourceMap"
  /\ call.threw
  /\ options.imgMap.keys = {"b", "icon"}
  /\ options.imgMap.sources["icon"] = "destroyedTexture"
  /\ spriteTemplates = {"b"}
  /\ tagStyles["b"] = [imgSrc |-> "b", underline |-> "#ff0000"]
  /\ tagStyles["icon"] = [imgSrc |-> "b", underline |-> "#ff0000"]

====
